---- MODULE Spec2Model ----
(***************************************************************************)
(* Model of flopy/modflow/mf.py: the Modflow model class, its external     *)
(* unit allocator and the name-file driven loader Modflow.load.            *)
(*                                                                         *)
(* The working table ext_unit_dict is a sequence of entries in traversal   *)
(* order (the order ext_unit_dict.items() yields them); unit numbers are   *)
(* the keys and are unique.  Package loaders are external collaborators:   *)
(* a loader call either succeeds or raises, and may append one unit to     *)
(* the model's pop_key_list.                                               *)
(***************************************************************************)
EXTENDS Integers, Sequences, FiniteSets, TLC

VARIABLES
    pc,                       \* position inside Modflow.load
    lo_in,                    \* the load_only argument as passed by the caller
    manifest,                 \* the table as parsenamefile returned it
    ext_unit_dict,            \* working table
    load_only,                \* the local load_only list once it is a list
    files_succesfully_loaded,
    files_not_loaded,
    pop_key_list,             \* ml.pop_key_list
    mfpar,                    \* ml.mfpar: the units each step resolved
    idx,                      \* position of the per-package loop
    err,                      \* the exception that left load, if any
    not_found,                \* tags named by the load_only error
    warnings,                 \* pop-list units that raised in the last loop
    trace,                    \* calls made by load, in order
    external_units,           \* per Model instance
    external_fnames,
    external_binflag,
    next_ext_unit,            \* per Model instance: __next_ext_unit
    returned,                 \* per Model instance: what next_ext_unit() gave
    freed,                    \* per Model instance: units remove_external took
    retval,                   \* what Modflow.load handed to its caller
    modelname,                \* self.name of the instance ml
    version,                  \* self.version of the instance ml
    heading,                  \* the version text self.heading is built from
    model_ws,                 \* self.model_ws, a path as its components
    glo_package,              \* self.glo, when the instance has one
    lst_package,              \* self.lst
    packagelist,              \* file entries of the packages ml owns
    namefile,                 \* lines write_name_file wrote
    parsed,                   \* table read back from namefile
    wpc,                      \* position of the write and read-back run
    heap,                     \* dict objects, by object id
    mfnam_ref,                \* per Model instance: its mfnam_packages object
    regop,                    \* last operation on a registry
    dis_package,              \* the DIS package of ml, when it has one
    got                       \* results of the grid shape queries

vars == <<pc, lo_in, manifest, ext_unit_dict, load_only,
          files_succesfully_loaded, files_not_loaded, pop_key_list, mfpar,
          idx, err, not_found, warnings, trace, external_units,
          external_fnames, external_binflag, next_ext_unit, returned,
          freed, retval, modelname, version, heading, model_ws, glo_package,
          lst_package, packagelist, namefile, parsed, wpc, heap, mfnam_ref,
          regop, dis_package, got>>

loadvars == <<pc, lo_in, manifest, ext_unit_dict, load_only,
              files_succesfully_loaded, files_not_loaded, pop_key_list, mfpar,
              idx, err, not_found, warnings, trace, retval>>

writevars == <<modelname, version, heading, model_ws, glo_package, lst_package,
               packagelist, namefile, parsed, wpc>>
regvars == <<heap, mfnam_ref, regop>>
gridvars == <<dis_package, got>>
modelvars == <<writevars, regvars, gridvars>>
extvars == <<external_units, external_fnames, external_binflag,
             next_ext_unit, returned, freed>>

(***************************************************************************)
(* Bounds                                                                  *)
(***************************************************************************)
MaxEntries == 3      \* lines of the name file
MaxLoadOnly == 3     \* length of a load_only list
MaxPop == 2          \* units the loaders put on the pop list
MaxAlloc == 2        \* next_ext_unit() calls per instance
MaxExt == 1          \* external files per instance in the allocator runs

\* the starting external data unit number
FirstExtUnit == 1000

\* two Model instances: the one load constructs, and another
Models == {1, 2}
\* the instance Modflow.load constructs
ml == 1

(***************************************************************************)
(* Strings: the filetype tags that occur, with str.upper / str.lower and   *)
(* the two substring tests the loader makes.                               *)
(***************************************************************************)
FileTypes ==
    {"DIS", "WEL", "RCH", "LIST", "DATA", "DATA(BINARY)", "PVAL", "ZONE",
     "MULT"}
\* the tags of the auxiliary packages that ModflowPar resolves
ParFileTypes == {"PVAL", "ZONE", "MULT"}
\* spellings a caller uses in load_only, and as a bare string
LoadOnlyTags == <<"DIS", "dis", "WEL", "RCH">>
LoadOnlyStrings == {"wel"}

Upper(s) ==
    CASE s \in {"dis", "DIS"} -> "DIS"
      [] s \in {"wel", "WEL"} -> "WEL"
      [] s \in {"rch", "RCH"} -> "RCH"
      [] s \in {"list", "LIST"} -> "LIST"
      [] s \in {"data", "DATA"} -> "DATA"
      [] s \in {"data(binary)", "DATA(BINARY)"} -> "DATA(BINARY)"
      [] s \in {"pval", "PVAL"} -> "PVAL"
      [] s \in {"zone", "ZONE"} -> "ZONE"
      [] s \in {"mult", "MULT"} -> "MULT"
      [] s \in {"global", "GLOBAL"} -> "GLOBAL"

Lower(s) ==
    CASE s \in {"dis", "DIS"} -> "dis"
      [] s \in {"wel", "WEL"} -> "wel"
      [] s \in {"rch", "RCH"} -> "rch"
      [] s \in {"list", "LIST"} -> "list"
      [] s \in {"data", "DATA"} -> "data"
      [] s \in {"data(binary)", "DATA(BINARY)"} -> "data(binary)"
      [] s \in {"pval", "PVAL"} -> "pval"
      [] s \in {"zone", "ZONE"} -> "zone"
      [] s \in {"mult", "MULT"} -> "mult"
      [] s \in {"global", "GLOBAL"} -> "global"
      [] s \in {"mf2k", "MF2K"} -> "mf2k"
      [] s \in {"mf2005", "MF2005"} -> "mf2005"

\* variant: s == "data"
IsData(s) == s = "data"

\* "data" in s
ContainsData(s) == s \in {"data", "data(binary)"}
\* "binary" in s
ContainsBinary(s) == s \in {"data(binary)"}

\* keys of self.mfnam_packages
mfnam_packages ==
    {"zone", "mult", "pval", "bas6", "dis", "bcf6", "lpf", "hfb6", "chd",
     "wel", "drn", "rch", "evt", "ghb", "gmg", "riv", "str", "swi2", "pcg",
     "pcgn", "nwt", "pks", "sfr", "sip", "sor", "de4", "oc", "uzf", "upw"}

\* item.package is not None
HasPackage(item) == Lower(item.filetype) \in mfnam_packages

(***************************************************************************)
(* Sequence helpers                                                        *)
(***************************************************************************)
Range(s) == {s[i] : i \in 1..Len(s)}

\* list.pop / dict.pop of the element at position i
RemoveAt(s, i) == [j \in 1..(Len(s) - 1) |-> IF j < i THEN s[j] ELSE s[j + 1]]

\* position of the first element with key k, 0 when there is none
RECURSIVE KeyIndexFrom(_, _, _)
KeyIndexFrom(d, k, i) ==
    IF i > Len(d) THEN 0
    ELSE IF d[i].unit = k THEN i
    ELSE KeyIndexFrom(d, k, i + 1)
KeyIndex(d, k) == KeyIndexFrom(d, k, 1)

(***************************************************************************)
(* Inputs: the parsed name file and the load_only argument                 *)
(***************************************************************************)
\* entry of line i: unit numbers and file names are distinct per line
Entry(i, t) == [unit |-> 10 + i, filename |-> 100 + i, filetype |-> t]

\* the name files of up to MaxEntries lines with tags from T
ManifestsOver(T) ==
    UNION {{[i \in 1..n |-> Entry(i, ts[i])] : ts \in [1..n -> T]}
           : n \in 0..MaxEntries}

\* name files without lines of the auxiliary packages
Manifests == ManifestsOver(FileTypes \ ParFileTypes)
\* name files with lines of the auxiliary packages beside DIS and WEL
ParManifests == ManifestsOver({"DIS", "WEL"} \cup ParFileTypes)

\* load_only lists of up to MaxLoadOnly tags: each spelling at most once, in
\* the order of LoadOnlyTags
LoadOnlyLists ==
    UNION {{[i \in 1..n |-> LoadOnlyTags[f[i]]] :
               f \in {g \in [1..n -> 1..Len(LoadOnlyTags)] :
                         \A i \in 1..n, j \in 1..n : i < j => g[i] < g[j]}}
           : n \in 0..MaxLoadOnly}

LoadOnlyInputs ==
    {[kind |-> "none", items |-> <<>>]}
    \cup {[kind |-> "list", items |-> l] : l \in LoadOnlyLists}
    \cup {[kind |-> "str", items |-> <<t>>] : t \in LoadOnlyStrings}

\* load_only for a name file with auxiliary lines: omitted, or one package
ParLoadOnlyInputs ==
    {[kind |-> "none", items |-> <<>>], [kind |-> "list", items |-> <<"WEL">>]}

\* the name file and the load_only argument of a call of load
LoadInputs ==
    (Manifests \X LoadOnlyInputs) \cup (ParManifests \X ParLoadOnlyInputs)

\* units a loader may claim for itself and put on the pop list: output units,
\* which the name file lists on a DATA line or does not list at all
PopUnits ==
    {10} \cup {manifest[i].unit : i \in {j \in 1..Len(manifest) :
                                           ContainsData(Lower(manifest[j].filetype))}}

\* entries of trace: a package loader called for an entry (whether it returned,
\* and the unit it put on the pop list, 0 for none), or a ModflowPar step
LoadEvent(it, ok, p) ==
    [op |-> "load", key |-> it.unit, filetype |-> it.filetype, ok |-> ok,
     pop |-> p]
ParEvent(name) ==
    [op |-> name, key |-> 0, filetype |-> "none", ok |-> TRUE, pop |-> 0]

(***************************************************************************)
(* Modflow.__init__                                                        *)
(***************************************************************************)
\* model names: the one a model is constructed with, and one it is renamed to
ModelNames == {"m", "x"}
\* the modelname argument of the constructor
InitName == "m"

\* name + '.' + extension
FileName(n, ext) ==
    CASE n = "m" /\ ext = "glo" -> "m.glo"
      [] n = "m" /\ ext = "list" -> "m.list"
      [] n = "m" /\ ext = "dis" -> "m.dis"
      [] n = "m" /\ ext = "wel" -> "m.wel"
      [] n = "x" /\ ext = "glo" -> "x.glo"
      [] n = "x" /\ ext = "list" -> "x.list"
      [] n = "x" /\ ext = "dis" -> "x.dis"
      [] n = "x" /\ ext = "wel" -> "x.wel"

\* a package of a model named n: Package.__init__(model, extension, name, unit)
PackageOf(n, ext, tag, unit) ==
    [name |-> tag, unit |-> unit, extension |-> ext,
     fname |-> <<FileName(n, ext)>>]

\* ModflowGlobal(self) and ModflowList(self, unitnumber=listunit)
GloPackage(n) == PackageOf(n, "glo", "GLOBAL", 1)
LstPackage(n, listunit) == PackageOf(n, "list", "LIST", listunit)

\* the default of the listunit argument
DefaultListUnit == 2

\* the default version of Modflow.load
LoadVersion == "mf2k"

\* if self.version == 'mf2k': self.glo = ModflowGlobal(self)
GloOf(v, n) == IF v = "mf2k" THEN <<GloPackage(n)>> ELSE <<>>

\* the constructor's modelname, version, listunit and model_ws arguments
ModflowInit(n, v, listunit, ws) ==
    /\ modelname = n
    /\ heading = v
    /\ version = Lower(v)
    /\ glo_package = GloOf(Lower(v), n)
    /\ lst_package = LstPackage(n, listunit)
    /\ model_ws = ws

\* keys a registry is looked up with: the constructor's and one more
RegKeys == mfnam_packages \cup {"abc"}
\* the dict display of self.mfnam_packages: every key bound to its own class
DefaultRegistry ==
    [k \in RegKeys |-> IF k \in mfnam_packages THEN "own" ELSE "absent"]
NoDict == [k \in RegKeys |-> "absent"]
\* identities of the dict objects the constructors make
DictIds == {1, 2}

\* an instance as the constructor leaves it, nothing written or queried yet
Queries == {"nlay", "nrow", "ncol", "nper", "all"}
InitUnwritten ==
    /\ namefile = <<>>
    /\ parsed = <<>>
    /\ wpc = "init"
InitNoDis ==
    /\ dis_package = <<>>
    /\ got = [q \in Queries |-> <<>>]
InitIdle ==
    /\ packagelist = <<>>
    /\ InitUnwritten
    /\ InitNoDis
\* every instance constructed, each with the dict its constructor made
InitBuilt ==
    /\ mfnam_ref = [m \in Models |-> m]
    /\ heap = [o \in DictIds |-> DefaultRegistry]
    /\ regop = [op |-> "none", m |-> 0]

(***************************************************************************)
(* The state of load after parsenamefile                                   *)
(***************************************************************************)
InitModels ==
    /\ external_units = [m \in Models |-> <<>>]
    /\ external_fnames = [m \in Models |-> <<>>]
    /\ external_binflag = [m \in Models |-> <<>>]
    /\ next_ext_unit = [m \in Models |-> FirstExtUnit]
    /\ returned = [m \in Models |-> <<>>]
    /\ freed = [m \in Models |-> {}]

InitLoad ==
    /\ pc = "load_dis"
    /\ manifest = ext_unit_dict
    /\ load_only = <<>>
    /\ files_succesfully_loaded = <<>>
    /\ files_not_loaded = <<>>
    /\ pop_key_list = <<>>
    /\ mfpar = [pval |-> {}, zone |-> {}, mult |-> {}]
    /\ idx = 0
    /\ err = "none"
    /\ not_found = <<>>
    /\ warnings = <<>>
    /\ trace = <<>>
    /\ retval = <<>>

Init ==
    /\ \E in \in LoadInputs : ext_unit_dict = in[1] /\ lo_in = in[2]
    /\ InitLoad
    /\ InitModels
    /\ ModflowInit(InitName, LoadVersion, DefaultListUnit, <<>>)
    /\ InitIdle
    /\ InitBuilt


(***************************************************************************)
(* Modflow.load, lines 386-405: the discretization package goes first      *)
(***************************************************************************)
\* variant: the search stops at the first entry that has a package at all
RECURSIVE FirstPackageFrom(_, _)
FirstPackageFrom(d, i) ==
    IF i > Len(d) THEN 0
    ELSE IF HasPackage(d[i]) THEN i
    ELSE FirstPackageFrom(d, i + 1)

\* variant: the search has no break and keeps the last entry it finds
RECURSIVE LastDisFrom(_, _)
LastDisFrom(d, i) ==
    IF i > Len(d) THEN 0
    ELSE LET later == LastDisFrom(d, i + 1)
         IN IF later # 0 THEN later
            ELSE IF Lower(d[i].filetype) = "dis" THEN i ELSE 0

\* the for/break that looks for the first entry with filetype.lower() == "dis"
RECURSIVE FirstDisFrom(_, _)
FirstDisFrom(d, i) ==
    IF i > Len(d) THEN 0
    ELSE IF Lower(d[i].filetype) = "dis" THEN i
    ELSE FirstDisFrom(d, i + 1)
FirstDis(d) == FirstDisFrom(d, 1)

\* what a package loader that succeeds may do to ml.pop_key_list: nothing
\* (p = 0) or append p, a unit it claimed for itself; a loader that raises has
\* claimed none
PopChoice(p) == p = 0 \/ (p \in PopUnits /\ Len(pop_key_list) < MaxPop)
AppendPop(p) == IF p = 0 THEN pop_key_list ELSE Append(pop_key_list, p)

\* variant: a name file without DIS is let through to the other packages
LoadDisMissingIgnored ==
    /\ pc = "load_dis"
    /\ FirstDis(ext_unit_dict) = 0
    /\ pc' = "load_only"
    /\ UNCHANGED <<modelvars, retval, lo_in, manifest, ext_unit_dict, load_only,
                   files_succesfully_loaded, files_not_loaded, pop_key_list,
                   mfpar, idx, err, not_found, warnings, trace, external_units,
                   external_fnames, external_binflag, next_ext_unit, returned,
                   freed>>

\* dis is None: dis.package raises inside the try, and the handler's own
\* dis.filename raises again, which leaves load
LoadDisMissing ==
    /\ pc = "load_dis"
    /\ FirstDis(ext_unit_dict) = 0
    /\ pc' = "raised"
    /\ err' = "AttributeError"
    /\ UNCHANGED <<modelvars, retval, lo_in, manifest, ext_unit_dict, load_only,
                   files_succesfully_loaded, files_not_loaded, pop_key_list,
                   mfpar, idx, not_found, warnings, trace, external_units,
                   external_fnames, external_binflag, next_ext_unit, returned, freed>>

\* variant: the loaded DIS entry is left in the table
LoadDisSuccessKeeps(p) ==
    /\ pc = "load_dis"
    /\ FirstDis(ext_unit_dict) # 0
    /\ PopChoice(p)
    /\ LET k == FirstDis(ext_unit_dict)
           dis == ext_unit_dict[k]
       IN /\ trace' = Append(trace, LoadEvent(dis, TRUE, p))
          /\ files_succesfully_loaded' =
                 Append(files_succesfully_loaded, dis.filename)
    /\ pop_key_list' = AppendPop(p)
    /\ pc' = "load_only"
    /\ UNCHANGED <<modelvars, retval,
                   lo_in, manifest, ext_unit_dict, load_only, files_not_loaded,
                   mfpar, idx, err, not_found, warnings, external_units,
                   external_fnames, external_binflag, next_ext_unit, returned,
                   freed>>

LoadDisSuccess(p) ==
    /\ pc = "load_dis"
    /\ FirstDis(ext_unit_dict) # 0
    /\ PopChoice(p)
    /\ LET k == FirstDis(ext_unit_dict)
           dis == ext_unit_dict[k]
       IN /\ trace' = Append(trace, LoadEvent(dis, TRUE, p))
          /\ files_succesfully_loaded' =
                 Append(files_succesfully_loaded, dis.filename)
          /\ ext_unit_dict' = RemoveAt(ext_unit_dict, k)
    /\ pop_key_list' = AppendPop(p)
    /\ pc' = "load_only"
    /\ UNCHANGED <<modelvars, retval,
                   lo_in, manifest, load_only, files_not_loaded, mfpar, idx,
                   err, not_found, warnings, external_units, external_fnames,
                   external_binflag, next_ext_unit, returned, freed>>

\* what a loader can raise: an Exception, or one of the exceptions that
\* derive from BaseException and not from Exception
Raisable == {"Exception", "KeyboardInterrupt", "SystemExit", "GeneratorExit"}

\* line 402, "except Exception": the clause of the DIS step catches e
CaughtAsException(e) == e = "Exception"

\* the exception that leaves load when the DIS loader raises e: the one the
\* handler raises (lines 403-405), or e itself when the clause lets it pass
DisError(e) ==
    IF CaughtAsException(e) THEN "Could not read discretization package"
                            ELSE e

\* variant: a DIS failure is recorded like any other package failure
LoadDisFailRecorded(e) ==
    /\ pc = "load_dis"
    /\ FirstDis(ext_unit_dict) # 0
    /\ e \in Raisable
    /\ LET k == FirstDis(ext_unit_dict)
           dis == ext_unit_dict[k]
       IN /\ trace' = Append(trace, LoadEvent(dis, FALSE, 0))
          /\ files_not_loaded' = Append(files_not_loaded, dis.filename)
          /\ ext_unit_dict' = RemoveAt(ext_unit_dict, k)
    /\ pc' = "load_only"
    /\ UNCHANGED <<modelvars, retval,
                   lo_in, manifest, load_only, files_succesfully_loaded,
                   pop_key_list, mfpar, idx, err, not_found, warnings,
                   external_units, external_fnames, external_binflag,
                   next_ext_unit, returned, freed>>

\* the DIS loader raises e: nothing is appended to a list or removed from the
\* table, and load is left with DisError(e)
LoadDisFail(e) ==
    /\ pc = "load_dis"
    /\ FirstDis(ext_unit_dict) # 0
    /\ e \in Raisable
    /\ trace' = Append(trace, LoadEvent(ext_unit_dict[FirstDis(ext_unit_dict)],
                                        FALSE, 0))
    /\ pc' = "raised"
    /\ err' = DisError(e)
    /\ UNCHANGED <<modelvars, retval,
                   pop_key_list, lo_in, manifest, ext_unit_dict, load_only,
                   files_succesfully_loaded, files_not_loaded, mfpar, idx,
                   not_found, warnings, external_units, external_fnames,
                   external_binflag, next_ext_unit, returned, freed>>

(***************************************************************************)
(* Modflow.load, lines 407-428: the load_only argument                     *)
(***************************************************************************)
\* load_only is None: every filetype of the table, in traversal order
AllFileTypes(d) == [i \in 1..Len(d) |-> d[i].filetype]

\* the list the caller passed; a value that is no list is wrapped in one
AsList(lo) == lo.items

\* load_only[i] = filetype.upper(), but only behind "if filetype != 'DIS'"
Normalise(l) ==
    [i \in 1..Len(l) |-> IF Upper(l[i]) # "DIS" THEN Upper(l[i]) ELSE l[i]]

\* variant: DIS is looked up in the table like every other tag
RECURSIVE NotFoundFromAll(_, _, _)
NotFoundFromAll(l, d, i) ==
    IF i > Len(l) THEN <<>>
    ELSE LET filetype == Upper(l[i])
             found == \E j \in 1..Len(d) : d[j].filetype = filetype
             rest == NotFoundFromAll(l, d, i + 1)
         IN IF ~found THEN <<filetype>> \o rest ELSE rest

\* the entries of load_only, other than DIS, that no entry of the table has
RECURSIVE NotFoundFrom(_, _, _)
NotFoundFrom(l, d, i) ==
    IF i > Len(l) THEN <<>>
    ELSE LET filetype == Upper(l[i])
             found == \E j \in 1..Len(d) : d[j].filetype = filetype
             rest == NotFoundFrom(l, d, i + 1)
         IN IF filetype # "DIS" /\ ~found THEN <<filetype>> \o rest ELSE rest
NotFound(l, d) == NotFoundFrom(l, d, 1)

LoadOnlyDefault ==
    /\ pc = "load_only"
    /\ lo_in.kind = "none"
    /\ load_only' = AllFileTypes(ext_unit_dict)
    /\ pc' = "set_pval"
    /\ UNCHANGED <<modelvars, retval,
                   lo_in, manifest, ext_unit_dict, files_succesfully_loaded,
                   files_not_loaded, pop_key_list, mfpar, idx, err, not_found,
                   warnings, trace, external_units, external_fnames,
                   external_binflag, next_ext_unit, returned, freed>>

LoadOnlyValid ==
    /\ pc = "load_only"
    /\ lo_in.kind # "none"
    /\ Len(NotFound(AsList(lo_in), ext_unit_dict)) = 0
    /\ load_only' = Normalise(AsList(lo_in))
    /\ pc' = "set_pval"
    /\ UNCHANGED <<modelvars, retval,
                   lo_in, manifest, ext_unit_dict, files_succesfully_loaded,
                   files_not_loaded, pop_key_list, mfpar, idx, err, not_found,
                   warnings, trace, external_units, external_fnames,
                   external_binflag, next_ext_unit, returned, freed>>

LoadOnlyInvalid ==
    /\ pc = "load_only"
    /\ lo_in.kind # "none"
    /\ Len(NotFound(AsList(lo_in), ext_unit_dict)) > 0
    /\ load_only' = Normalise(AsList(lo_in))
    /\ not_found' = NotFound(AsList(lo_in), ext_unit_dict)
    /\ pc' = "raised"
    /\ err' = "load_only entries were not found"
    /\ UNCHANGED <<modelvars, retval,
                   lo_in, manifest, ext_unit_dict, files_succesfully_loaded,
                   files_not_loaded, pop_key_list, mfpar, idx, warnings, trace,
                   external_units, external_fnames, external_binflag,
                   next_ext_unit, returned, freed>>

(***************************************************************************)
(* Modflow.load, lines 431-434: zone, mult, pval                           *)
(***************************************************************************)
\* units of the entries of the table whose filetype is tag, letter case aside
UnitsOf(d, tag) ==
    {d[i].unit : i \in {j \in 1..Len(d) : Lower(d[j].filetype) = tag}}

\* the table once the entries of the units in S are removed from it
Without(d, S) == SelectSeq(d, LAMBDA e : e.unit \notin S)

\* ModflowPar.set_pval / set_zone / set_mult on the table d: the step resolves
\* some, all or none of the entries of its tag; an entry it resolves is
\* claimed and removed from the table, an entry it does not resolve stays in
\* the table, and the step completes either way
Resolutions(d, tag) ==
    {[claimed |-> S, table |-> Without(d, S)] : S \in SUBSET UnitsOf(d, tag)}

\* variant: the loop starts once the parameter values are resolved
set_pval_only ==
    /\ pc = "set_pval"
    /\ \E r \in Resolutions(ext_unit_dict, "pval") :
           /\ mfpar' = [mfpar EXCEPT !.pval = r.claimed]
           /\ ext_unit_dict' = r.table
    /\ trace' = Append(trace, ParEvent("set_pval"))
    /\ pc' = "loop"
    /\ idx' = 1
    /\ UNCHANGED <<modelvars, retval, lo_in, manifest, load_only,
                   files_succesfully_loaded, files_not_loaded, pop_key_list,
                   err, not_found, warnings, external_units, external_fnames,
                   external_binflag, next_ext_unit, returned, freed>>

\* ml.mfpar.set_pval(ml, ext_unit_dict)
set_pval ==
    /\ pc = "set_pval"
    /\ \E r \in Resolutions(ext_unit_dict, "pval") :
           /\ mfpar' = [mfpar EXCEPT !.pval = r.claimed]
           /\ ext_unit_dict' = r.table
    /\ trace' = Append(trace, ParEvent("set_pval"))
    /\ pc' = "set_zone"
    /\ UNCHANGED <<modelvars, retval, lo_in, manifest, load_only,
                   files_succesfully_loaded, files_not_loaded, pop_key_list,
                   idx, err, not_found, warnings, external_units,
                   external_fnames, external_binflag, next_ext_unit, returned, freed>>

\* ml.mfpar.set_zone(ml, ext_unit_dict)
set_zone ==
    /\ pc = "set_zone"
    /\ \E r \in Resolutions(ext_unit_dict, "zone") :
           /\ mfpar' = [mfpar EXCEPT !.zone = r.claimed]
           /\ ext_unit_dict' = r.table
    /\ trace' = Append(trace, ParEvent("set_zone"))
    /\ pc' = "set_mult"
    /\ UNCHANGED <<modelvars, retval, lo_in, manifest, load_only,
                   files_succesfully_loaded, files_not_loaded, pop_key_list,
                   idx, err, not_found, warnings, external_units,
                   external_fnames, external_binflag, next_ext_unit, returned, freed>>

\* ml.mfpar.set_mult(ml, ext_unit_dict)
set_mult ==
    /\ pc = "set_mult"
    /\ \E r \in Resolutions(ext_unit_dict, "mult") :
           /\ mfpar' = [mfpar EXCEPT !.mult = r.claimed]
           /\ ext_unit_dict' = r.table
    /\ trace' = Append(trace, ParEvent("set_mult"))
    /\ pc' = "loop"
    /\ idx' = 1
    /\ UNCHANGED <<modelvars, retval, lo_in, manifest, load_only,
                   files_succesfully_loaded, files_not_loaded, pop_key_list,
                   err, not_found, warnings, external_units, external_fnames,
                   external_binflag, next_ext_unit, returned, freed>>

(***************************************************************************)
(* BaseModel.remove_external(unit=...): drop the external entries of a     *)
(* unit; a unit that has none is no error                                  *)
(***************************************************************************)
\* positions of the external entries that stay
KeptPositions(units, unit) ==
    SelectSeq([i \in 1..Len(units) |-> i], LAMBDA i : units[i] # unit)

remove_external(lst, units, unit) ==
    LET keep == KeptPositions(units, unit)
    IN [j \in 1..Len(keep) |-> lst[keep[j]]]

(***************************************************************************)
(* Modflow.load, lines 436-471: the per-package loop, one entry per step   *)
(***************************************************************************)
AtEntry == pc = "loop" /\ idx >= 1 /\ idx <= Len(ext_unit_dict)
item == ext_unit_dict[idx]

\* item.filetype in load_only
Selected(it) == it.filetype \in Range(load_only)

LoadPackageSuccess(p) ==
    /\ AtEntry
    /\ HasPackage(item)
    /\ Selected(item)
    /\ PopChoice(p)
    /\ trace' = Append(trace, LoadEvent(item, TRUE, p))
    /\ files_succesfully_loaded' =
           Append(files_succesfully_loaded, item.filename)
    /\ pop_key_list' = AppendPop(p)
    /\ idx' = idx + 1
    /\ UNCHANGED <<modelvars, retval,
                   pc, lo_in, manifest, ext_unit_dict, load_only,
                   files_not_loaded, mfpar, err, not_found, warnings,
                   external_units, external_fnames, external_binflag,
                   next_ext_unit, returned, freed>>

\* variant: the exception of a package loader leaves load
LoadPackageFailRaises(e) ==
    /\ AtEntry
    /\ HasPackage(item)
    /\ Selected(item)
    /\ e \in Raisable
    /\ trace' = Append(trace, LoadEvent(item, FALSE, 0))
    /\ pc' = "raised"
    /\ err' = "package load failed"
    /\ UNCHANGED <<modelvars, retval,
                   pop_key_list, lo_in, manifest, ext_unit_dict, load_only,
                   files_succesfully_loaded, files_not_loaded, mfpar, idx,
                   not_found, warnings, external_units, external_fnames,
                   external_binflag, next_ext_unit, returned, freed>>

\* variant: the failed file is put at the head of the not-loaded list
LoadPackageFailFirst(e) ==
    /\ AtEntry
    /\ HasPackage(item)
    /\ Selected(item)
    /\ e \in Raisable
    /\ trace' = Append(trace, LoadEvent(item, FALSE, 0))
    /\ files_not_loaded' = <<item.filename>> \o files_not_loaded
    /\ idx' = idx + 1
    /\ UNCHANGED <<modelvars, retval,
                   pop_key_list, pc, lo_in, manifest, ext_unit_dict, load_only,
                   files_succesfully_loaded, mfpar, err, not_found, warnings,
                   external_units, external_fnames, external_binflag,
                   next_ext_unit, returned, freed>>

\* line 447, "except BaseException": whatever e the loader raises is caught,
\* the failure is recorded and the loop goes on
LoadPackageFail(e) ==
    /\ AtEntry
    /\ HasPackage(item)
    /\ Selected(item)
    /\ e \in Raisable
    /\ trace' = Append(trace, LoadEvent(item, FALSE, 0))
    /\ files_not_loaded' = Append(files_not_loaded, item.filename)
    /\ idx' = idx + 1
    /\ UNCHANGED <<modelvars, retval,
                   pop_key_list, pc, lo_in, manifest, ext_unit_dict, load_only,
                   files_succesfully_loaded, mfpar, err, not_found, warnings,
                   external_units, external_fnames, external_binflag,
                   next_ext_unit, returned, freed>>

\* variant: a package that load_only leaves out is not recorded
SkipPackageSilently ==
    /\ AtEntry
    /\ HasPackage(item)
    /\ ~Selected(item)
    /\ idx' = idx + 1
    /\ UNCHANGED <<modelvars, retval,
                   pc, lo_in, manifest, ext_unit_dict, load_only,
                   files_succesfully_loaded, files_not_loaded, pop_key_list,
                   mfpar, err, not_found, warnings, trace, external_units,
                   external_fnames, external_binflag, next_ext_unit, returned,
                   freed>>

\* a package that load_only leaves out
SkipPackage ==
    /\ AtEntry
    /\ HasPackage(item)
    /\ ~Selected(item)
    /\ files_not_loaded' = Append(files_not_loaded, item.filename)
    /\ idx' = idx + 1
    /\ UNCHANGED <<modelvars, retval,
                   pc, lo_in, manifest, ext_unit_dict, load_only,
                   files_succesfully_loaded, pop_key_list, mfpar, err,
                   not_found, warnings, trace, external_units,
                   external_fnames, external_binflag, next_ext_unit, returned, freed>>

\* no package and no "data" in the filetype
SkipUnknown ==
    /\ AtEntry
    /\ ~HasPackage(item)
    /\ ~ContainsData(Lower(item.filetype))
    /\ files_not_loaded' = Append(files_not_loaded, item.filename)
    /\ idx' = idx + 1
    /\ UNCHANGED <<modelvars, retval,
                   pc, lo_in, manifest, ext_unit_dict, load_only,
                   files_succesfully_loaded, pop_key_list, mfpar, err,
                   not_found, warnings, trace, external_units,
                   external_fnames, external_binflag, next_ext_unit, returned, freed>>

\* a data file: registered as external unless its unit is on the pop list
KeepExternal(key) == key \notin Range(pop_key_list)

DataEntry ==
    /\ AtEntry
    /\ ~HasPackage(item)
    /\ ContainsData(Lower(item.filetype))
    /\ IF KeepExternal(item.unit)
       THEN /\ external_fnames' =
                   [external_fnames EXCEPT ![ml] = Append(@, item.filename)]
            /\ external_units' =
                   [external_units EXCEPT ![ml] = Append(@, item.unit)]
            /\ external_binflag' =
                   [external_binflag EXCEPT
                       ![ml] = Append(@, ContainsBinary(Lower(item.filetype)))]
       ELSE UNCHANGED <<external_fnames, external_units, external_binflag>>
    /\ idx' = idx + 1
    /\ UNCHANGED <<modelvars, retval,
                   pc, lo_in, manifest, ext_unit_dict, load_only,
                   files_succesfully_loaded, files_not_loaded, pop_key_list,
                   mfpar, err, not_found, warnings, trace, next_ext_unit,
                   returned, freed>>

(***************************************************************************)
(* Modflow.load, lines 473-501: the pop list, then return ml               *)
(***************************************************************************)
\* one pass of the try: remove_external, then ext_unit_dict.pop(key); the
\* KeyError of a key that is not in the table is caught
PopOne(r, key) ==
    LET k == KeyIndex(r.dict, key)
    IN [units |-> remove_external(r.units, r.units, key),
        fnames |-> remove_external(r.fnames, r.units, key),
        binflag |-> remove_external(r.binflag, r.units, key),
        dict |-> IF k = 0 THEN r.dict ELSE RemoveAt(r.dict, k),
        warn |-> IF k = 0 THEN Append(r.warn, key) ELSE r.warn]

\* variant: the try is around the loop, so the first missing key ends it
RECURSIVE PopAllUntilMissing(_, _, _)
PopAllUntilMissing(r, keys, j) ==
    IF j > Len(keys) THEN r
    ELSE IF KeyIndex(r.dict, keys[j]) = 0 THEN PopOne(r, keys[j])
    ELSE PopAllUntilMissing(PopOne(r, keys[j]), keys, j + 1)

\* variant: load hands nothing to its caller
ReturnNothing == <<>>

\* return ml: the objects handed to the caller, in order
ReturnValue == <<ml>>

RECURSIVE PopAllFrom(_, _, _)
PopAllFrom(r, keys, j) ==
    IF j > Len(keys) THEN r
    ELSE PopAllFrom(PopOne(r, keys[j]), keys, j + 1)

PopKeys ==
    /\ pc = "loop"
    /\ idx > Len(ext_unit_dict)
    /\ LET r == PopAllFrom([units |-> external_units[ml],
                            fnames |-> external_fnames[ml],
                            binflag |-> external_binflag[ml],
                            dict |-> ext_unit_dict,
                            warn |-> <<>>], pop_key_list, 1)
       IN /\ external_units' = [external_units EXCEPT ![ml] = r.units]
          /\ external_fnames' = [external_fnames EXCEPT ![ml] = r.fnames]
          /\ external_binflag' = [external_binflag EXCEPT ![ml] = r.binflag]
          /\ ext_unit_dict' = r.dict
          /\ warnings' = r.warn
    /\ pc' = "done"
    /\ retval' = ReturnValue
    /\ UNCHANGED <<modelvars,
                   lo_in, manifest, load_only, files_succesfully_loaded,
                   files_not_loaded, pop_key_list, mfpar, idx, err, not_found,
                   trace, next_ext_unit, returned, freed>>

LoadNext ==
    \/ LoadDisMissing
    \/ \E p \in PopUnits \cup {0} : LoadDisSuccess(p)
    \/ \E e \in Raisable : LoadDisFail(e)
    \/ LoadOnlyDefault
    \/ LoadOnlyValid
    \/ LoadOnlyInvalid
    \/ set_pval
    \/ set_zone
    \/ set_mult
    \/ \E p \in PopUnits \cup {0} : LoadPackageSuccess(p)
    \/ \E e \in Raisable : LoadPackageFail(e)
    \/ SkipPackage
    \/ SkipUnknown
    \/ DataEntry
    \/ PopKeys

Next == LoadNext

Spec == Init /\ [][Next]_vars

(***************************************************************************)
(* The external unit allocator of each Model instance, with the external   *)
(* file list it numbers                                                    *)
(***************************************************************************)
\* variant: the counter is read but not advanced
KeepExtUnit(n) == n

\* self.__next_ext_unit += 1
IncrExtUnit(n) == n + 1

next_ext_unit_call(m) ==
    /\ next_ext_unit[m] < FirstExtUnit + MaxAlloc
    /\ next_ext_unit' = [next_ext_unit EXCEPT ![m] = IncrExtUnit(@)]
    /\ returned' = [returned EXCEPT
                       ![m] = Append(@, [unit |-> next_ext_unit'[m],
                                         freed |-> freed[m] # {}])]
    /\ UNCHANGED <<loadvars, modelvars, external_units, external_fnames,
                   external_binflag, freed>>

\* BaseModel.add_external for a file on a unit the allocator handed out
add_external(m, u) ==
    /\ Len(external_units[m]) < MaxExt
    /\ u \in {returned[m][i].unit : i \in 1..Len(returned[m])}
    /\ u \notin Range(external_units[m])
    /\ external_units' = [external_units EXCEPT ![m] = Append(@, u)]
    /\ external_fnames' = [external_fnames EXCEPT ![m] = Append(@, u)]
    /\ external_binflag' = [external_binflag EXCEPT ![m] = Append(@, FALSE)]
    /\ UNCHANGED <<loadvars, modelvars, next_ext_unit, returned, freed>>

remove_external_call(m, u) ==
    /\ u \in Range(external_units[m])
    /\ external_units' =
           [external_units EXCEPT ![m] = remove_external(@, external_units[m], u)]
    /\ external_fnames' =
           [external_fnames EXCEPT ![m] = remove_external(@, external_units[m], u)]
    /\ external_binflag' =
           [external_binflag EXCEPT ![m] = remove_external(@, external_units[m], u)]
    /\ freed' = [freed EXCEPT ![m] = @ \cup {u}]
    /\ UNCHANGED <<loadvars, modelvars, next_ext_unit, returned>>

ExtUnits == (FirstExtUnit + 1)..(FirstExtUnit + MaxAlloc)

InitExt ==
    /\ ext_unit_dict = <<>>
    /\ lo_in = [kind |-> "none", items |-> <<>>]
    /\ InitLoad
    /\ InitModels
    /\ ModflowInit(InitName, LoadVersion, DefaultListUnit, <<>>)
    /\ InitIdle
    /\ InitBuilt

NextExt ==
    \/ \E m \in Models : next_ext_unit_call(m)
    \/ \E m \in Models, u \in ExtUnits : add_external(m, u)
    \/ \E m \in Models, u \in ExtUnits : remove_external_call(m, u)

SpecExt == InitExt /\ [][NextExt]_vars

(***************************************************************************)
(* write_name_file, and the table parsenamefile reads back from the lines  *)
(* it wrote.  A path is the sequence of its components below the current   *)
(* directory; a line is its whitespace-separated tokens.                   *)
(***************************************************************************)
MaxPkg == 1          \* packages the written model owns
MaxWExt == 2         \* external files of the written model

VersionTexts == {"mf2005", "MF2K"}
Workspaces == {<<>>, <<"ws">>}
PkgEntries ==
    {PackageOf(InitName, "dis", "DIS", 11),
     PackageOf(InitName, "wel", "WEL", 12)}
ExtFiles == {<<"a">>, <<"ws", "b">>}
ExtEntries == [unit : {0, 11, 1001}, fname : ExtFiles, bin : BOOLEAN]

SeqsUpTo(S, n) == UNION {[1..k -> S] : k \in 0..n}
\* package lists in which no package type occurs twice
PackageLists ==
    {l \in SeqsUpTo(PkgEntries, MaxPkg) :
        \A i \in 1..Len(l), j \in 1..Len(l) : i # j => l[i].name # l[j].name}

InitWrite ==
    /\ \E v \in VersionTexts, ws \in Workspaces :
           ModflowInit(InitName, v, DefaultListUnit, ws)
    /\ packagelist \in PackageLists
    /\ \E e \in SeqsUpTo(ExtEntries, MaxWExt) :
           /\ external_units =
                  [m \in Models |->
                      IF m = ml THEN [i \in 1..Len(e) |-> e[i].unit] ELSE <<>>]
           /\ external_fnames =
                  [m \in Models |->
                      IF m = ml THEN [i \in 1..Len(e) |-> e[i].fname] ELSE <<>>]
           /\ external_binflag =
                  [m \in Models |->
                      IF m = ml THEN [i \in 1..Len(e) |-> e[i].bin] ELSE <<>>]
    /\ next_ext_unit = [m \in Models |-> FirstExtUnit]
    /\ returned = [m \in Models |-> <<>>]
    /\ freed = [m \in Models |-> {}]
    /\ ext_unit_dict = <<>>
    /\ lo_in = [kind |-> "none", items |-> <<>>]
    /\ InitLoad
    /\ InitUnwritten
    /\ InitNoDis
    /\ InitBuilt

\* length of the common prefix of two paths
RECURSIVE CommonFrom(_, _, _)
CommonFrom(a, b, i) ==
    IF i > Len(a) \/ i > Len(b) THEN i - 1
    ELSE IF a[i] # b[i] THEN i - 1
    ELSE CommonFrom(a, b, i + 1)

\* variant: the path is written as it is held
AbsPath(f, start) == f

\* os.path.relpath(f, start)
RelPath(f, start) ==
    LET c == CommonFrom(f, start, 1)
        up == [i \in 1..(Len(start) - c) |-> ".."]
        rel == up \o SubSeq(f, c + 1, Len(f))
    IN IF rel = <<>> THEN <<".">> ELSE rel

Line(ftype, unit, fname, option) ==
    [ftype |-> ftype, unit |-> unit, fname |-> fname, option |-> option]

\* f_nam.write('%s\n' % (self.heading))
HeadingLine == Line("#", 0, <<>>, heading)
\* '{:12s} {:3d} {}\n'.format(name[0], unit_number[0], file_name[0])
PackageLine(p) == Line(p.name, p.unit, p.fname, "")

\* variant: the global line is written for every version
GloLinesAlways == <<PackageLine(GloPackage(modelname))>>

\* if self.version == 'mf2k': the line of self.glo
GloLines ==
    IF version = "mf2k" THEN <<PackageLine(glo_package[1])>> ELSE <<>>

\* BaseModel.get_name_file_entries: a line per file entry of each package
get_name_file_entries ==
    [i \in 1..Len(packagelist) |-> PackageLine(packagelist[i])]

\* variant: every external file is written as a text file
ExternalLineText(u, f, b) == Line("DATA", u, RelPath(f, model_ws), "")

\* the DATA(BINARY) ... REPLACE or DATA line of one external file
ExternalLine(u, f, b) ==
    IF b THEN Line("DATA(BINARY)", u, RelPath(f, model_ws), "REPLACE")
    ELSE Line("DATA", u, RelPath(f, model_ws), "")

\* zip(...) stops with the shortest of the three lists
ZipLen(a, b, c) ==
    CHOOSE n \in {Len(a), Len(b), Len(c)} :
        n <= Len(a) /\ n <= Len(b) /\ n <= Len(c)

\* the loop over the external files: if u == 0: continue
RECURSIVE ExternalLinesFrom(_, _, _, _)
ExternalLinesFrom(us, fs, bs, i) ==
    IF i > ZipLen(us, fs, bs) THEN <<>>
    ELSE IF us[i] = 0 THEN ExternalLinesFrom(us, fs, bs, i + 1)
    ELSE <<ExternalLine(us[i], fs[i], bs[i])>>
             \o ExternalLinesFrom(us, fs, bs, i + 1)

\* p.file_name[i] = self.name + '.' + p.extension[i]
Rename(p, value) == [p EXCEPT !.fname = <<FileName(value, p.extension)>>]

\* m.name = value: BaseModel.set_name names the model and the files of the
\* packages it owns, then the global (version mf2k) and the listing file
set_name(value) ==
    /\ wpc = "init"
    /\ modelname' = value
    /\ packagelist' =
           [i \in 1..Len(packagelist) |-> Rename(packagelist[i], value)]
    /\ glo_package' =
           IF version = "mf2k"
           THEN [i \in 1..Len(glo_package) |-> Rename(glo_package[i], value)]
           ELSE glo_package
    /\ lst_package' = Rename(lst_package, value)
    /\ UNCHANGED <<loadvars, regvars, gridvars, extvars, version, heading,
                   model_ws, namefile, parsed, wpc>>

write_name_file ==
    /\ wpc = "init"
    /\ namefile' =
           <<HeadingLine>> \o GloLines \o <<PackageLine(lst_package)>>
               \o get_name_file_entries
               \o ExternalLinesFrom(external_units[ml], external_fnames[ml],
                                    external_binflag[ml], 1)
    /\ wpc' = "written"
    /\ UNCHANGED <<loadvars, regvars, gridvars, modelname, version, heading,
                   model_ws, glo_package, lst_package, packagelist, parsed,
                   external_units, external_fnames, external_binflag,
                   next_ext_unit, returned, freed>>

\* one line of the name file into the table: comment lines are passed over,
\* the filetype is held in upper case and the unit number is the key
ParseLine(t, line) ==
    IF line.ftype = "#" THEN t
    ELSE LET e == [unit |-> line.unit, filename |-> line.fname,
                   filetype |-> Upper(line.ftype)]
             k == KeyIndex(t, line.unit)
         IN IF k = 0 THEN Append(t, e) ELSE [t EXCEPT ![k] = e]

RECURSIVE ParseFrom(_, _, _)
ParseFrom(t, lines, i) ==
    IF i > Len(lines) THEN t
    ELSE ParseFrom(ParseLine(t, lines[i]), lines, i + 1)

parsenamefile ==
    /\ wpc = "written"
    /\ parsed' = ParseFrom(<<>>, namefile, 1)
    /\ wpc' = "parsed"
    /\ UNCHANGED <<loadvars, regvars, gridvars, modelname, version, heading,
                   model_ws, glo_package, lst_package, packagelist, namefile,
                   external_units, external_fnames, external_binflag,
                   next_ext_unit, returned, freed>>

NextWrite ==
    \/ \E value \in ModelNames : set_name(value)
    \/ write_name_file
    \/ parsenamefile

SpecWrite == InitWrite /\ [][NextWrite]_vars

(***************************************************************************)
(* The registry self.mfnam_packages of each instance.  The constructor     *)
(* evaluates a dict display, which makes a new dict object; the instance   *)
(* holds a reference to it, and an update through an instance changes the  *)
(* object its reference names.                                             *)
(***************************************************************************)
\* keys the callers add, replace or remove
ModKeys == {"dis", "wel", "abc"}
\* the default version of the constructor
InitVersion == "mf2005"

InitReg ==
    /\ mfnam_ref = [m \in Models |-> 0]
    /\ heap = [o \in DictIds |-> NoDict]
    /\ regop = [op |-> "none", m |-> 0]
    /\ ModflowInit(InitName, InitVersion, DefaultListUnit, <<>>)
    /\ InitIdle
    /\ InitModels
    /\ ext_unit_dict = <<>>
    /\ lo_in = [kind |-> "none", items |-> <<>>]
    /\ InitLoad

\* variant: the dict is made once, for the class, and every instance names it
SharedDict == CHOOSE o \in DictIds : \A x \in DictIds : o <= x

\* the dict display makes an object that no instance names yet
NewDict ==
    CHOOSE o \in DictIds :
        /\ \A m \in Models : mfnam_ref[m] # o
        /\ \A x \in DictIds : (\A m \in Models : mfnam_ref[m] # x) => o <= x

\* Modflow(...): self.mfnam_packages = {...}
Construct(m) ==
    /\ mfnam_ref[m] = 0
    /\ LET o == NewDict
       IN /\ heap' = [heap EXCEPT ![o] = DefaultRegistry]
          /\ mfnam_ref' = [mfnam_ref EXCEPT ![m] = o]
    /\ regop' = [op |-> "construct", m |-> m]
    /\ UNCHANGED <<loadvars, writevars, gridvars, extvars>>

\* m.mfnam_packages[k] = v
SetEntry(m, k, v) ==
    /\ mfnam_ref[m] # 0
    /\ heap' = [heap EXCEPT ![mfnam_ref[m]][k] = v]
    /\ regop' = [op |-> "set", m |-> m]
    /\ UNCHANGED <<loadvars, writevars, gridvars, extvars, mfnam_ref>>

\* del m.mfnam_packages[k]
DelEntry(m, k) ==
    /\ mfnam_ref[m] # 0
    /\ heap[mfnam_ref[m]][k] # "absent"
    /\ heap' = [heap EXCEPT ![mfnam_ref[m]][k] = "absent"]
    /\ regop' = [op |-> "del", m |-> m]
    /\ UNCHANGED <<loadvars, writevars, gridvars, extvars, mfnam_ref>>

NextReg ==
    \/ \E m \in Models : Construct(m)
    \/ \E m \in Models, k \in ModKeys, v \in {"own", "other"} :
           SetEntry(m, k, v)
    \/ \E m \in Models, k \in ModKeys : DelEntry(m, k)

SpecReg == InitReg /\ [][NextReg]_vars

(***************************************************************************)
(* The grid shape: nlay, nrow, ncol, nper and get_nrow_ncol_nlay_nper,     *)
(* on an instance whose DIS package is added, replaced and removed         *)
(***************************************************************************)
MaxDim == 2          \* largest number of layers, rows, columns, periods

DisPackages == [nlay : 1..MaxDim, nrow : 1..MaxDim, ncol : 1..MaxDim,
                nper : 1..MaxDim]

InitGrid ==
    /\ ModflowInit(InitName, InitVersion, DefaultListUnit, <<>>)
    /\ InitIdle
    /\ InitBuilt
    /\ InitModels
    /\ ext_unit_dict = <<>>
    /\ lo_in = [kind |-> "none", items |-> <<>>]
    /\ InitLoad

NoAnswers == [q \in Queries |-> <<>>]

\* a DIS package is added to the model, or takes the place of the one there
add_package(d) ==
    /\ dis_package' = <<d>>
    /\ got' = NoAnswers
    /\ UNCHANGED <<loadvars, writevars, regvars, extvars>>

remove_package ==
    /\ dis_package # <<>>
    /\ dis_package' = <<>>
    /\ got' = NoAnswers
    /\ UNCHANGED <<loadvars, writevars, regvars, extvars>>

\* if (self.dis): return self.dis.<field> else: return 0
ShapeField(q) ==
    IF dis_package # <<>>
    THEN CASE q = "nlay" -> dis_package[1].nlay
           [] q = "nrow" -> dis_package[1].nrow
           [] q = "ncol" -> dis_package[1].ncol
           [] q = "nper" -> dis_package[1].nper
    ELSE 0

\* the four properties
Property(q) ==
    /\ got' = [got EXCEPT ![q] = <<ShapeField(q)>>]
    /\ UNCHANGED <<loadvars, writevars, regvars, extvars, dis_package>>

\* variant: the shape with the layers first
ShapeLayFirst ==
    IF dis_package # <<>>
    THEN <<dis_package[1].nlay, dis_package[1].nrow, dis_package[1].ncol,
           dis_package[1].nper>>
    ELSE <<0, 0, 0, 0>>

\* return dis.nrow, dis.ncol, dis.nlay, dis.nper, or 0, 0, 0, 0
Shape ==
    IF dis_package # <<>>
    THEN <<dis_package[1].nrow, dis_package[1].ncol, dis_package[1].nlay,
           dis_package[1].nper>>
    ELSE <<0, 0, 0, 0>>

get_nrow_ncol_nlay_nper ==
    /\ got' = [got EXCEPT !["all"] = <<Shape>>]
    /\ UNCHANGED <<loadvars, writevars, regvars, extvars, dis_package>>

NextGrid ==
    \/ \E d \in DisPackages : add_package(d)
    \/ remove_package
    \/ \E q \in Queries \ {"all"} : Property(q)
    \/ get_nrow_ncol_nlay_nper

SpecGrid == InitGrid /\ [][NextGrid]_vars

(***************************************************************************)
(* Properties of Modflow.load                                              *)
(***************************************************************************)
\* the working table as the discretization step leaves it
WorkingTable ==
    LET k == FirstDis(manifest)
    IN IF k = 0 THEN manifest ELSE RemoveAt(manifest, k)
\* the working table as the package loop finds it: without the entries the
\* ModflowPar steps claimed
LoopTable ==
    LET claimed == mfpar.pval \cup mfpar.zone \cup mfpar.mult
    IN SelectSeq(WorkingTable, LAMBDA e : e.unit \notin claimed)

IsLoad(e) == e.op = "load"
IsDisLoad(e) == e.op = "load" /\ e.filetype \in {"DIS", "dis"}
IsOtherLoad(e) == e.op = "load" /\ e.filetype \notin {"DIS", "dis"}
LoadsOf(key) == {i \in 1..Len(trace) : IsLoad(trace[i]) /\ trace[i].key = key}
Returned == pc = "done"
Raised == pc = "raised"

\* C1: when the name file has a DIS entry, the first call load makes is the
\* DIS loader: no loader of another package and no other step comes before
\* it, wherever the DIS line stands in the name file.
C1_DisLoadedFirst ==
    FirstDis(manifest) # 0 =>
        /\ pc # "load_dis" => (Len(trace) >= 1 /\ IsDisLoad(trace[1]))
        /\ \A i \in 1..Len(trace) :
               IsOtherLoad(trace[i]) =>
                   \E j \in 1..(i - 1) : IsDisLoad(trace[j])

\* a run in which DIS was not the first line and other packages were loaded
C1_Witness ==
    /\ Returned
    /\ FirstDis(manifest) = Len(manifest)
    /\ Len(manifest) >= 3
    /\ \E i \in 1..Len(trace) : IsOtherLoad(trace[i]) /\ trace[i].ok

\* C2: load never returns a Model without the discretization package: with
\* no DIS entry it raises before any loader is called, and when it returns
\* the DIS loader was called first and its file is the first loaded file.
C2_NoModelWithoutDis ==
    /\ FirstDis(manifest) = 0 =>
           /\ ~Returned
           /\ pc \in {"load_dis", "raised"}
           /\ \A i \in 1..Len(trace) : ~IsLoad(trace[i])
    /\ Returned =>
           /\ FirstDis(manifest) # 0
           /\ IsDisLoad(trace[1]) /\ trace[1].ok
           /\ trace[1].key = manifest[FirstDis(manifest)].unit
           /\ files_succesfully_loaded[1] = manifest[FirstDis(manifest)].filename

\* load raised on a name file that has packages but no DIS
C2_Witness ==
    /\ Raised
    /\ FirstDis(manifest) = 0
    /\ \E i \in 1..Len(manifest) : HasPackage(manifest[i])
    /\ trace = <<>>

\* C3: when the DIS loader raises, load raises: no Model is returned, the
\* ModflowPar steps are not run, no other loader is called, and the DIS file
\* is not put in the not-loaded list.
C3_DisFailureIsFatal ==
    (Len(trace) >= 1 /\ IsDisLoad(trace[1]) /\ ~trace[1].ok) =>
        /\ Raised
        /\ err \in {"Could not read discretization package",
                    "KeyboardInterrupt", "SystemExit", "GeneratorExit"}
        /\ Len(trace) = 1
        /\ mfpar = [pval |-> {}, zone |-> {}, mult |-> {}]
        /\ files_not_loaded = <<>>
        /\ files_succesfully_loaded = <<>>

\* the DIS loader raised on a name file that has another package to load
C3_Witness ==
    /\ Raised
    /\ Len(trace) = 1 /\ IsDisLoad(trace[1]) /\ ~trace[1].ok
    /\ \E i \in 1..Len(WorkingTable) :
           HasPackage(WorkingTable[i]) /\ WorkingTable[i].filetype # "DIS"

CallerSelects(tag) ==
    IF lo_in.kind = "none"
    THEN \E k \in 1..Len(WorkingTable) : WorkingTable[k].filetype = tag
    ELSE \E i \in 1..Len(lo_in.items) : Upper(lo_in.items[i]) = tag

\* C5: when load returns, the loader of a package entry of the working table
\* was called if and only if the entry's tag is in the effective load_only
\* set (the caller's list, or every tag of the table when it was omitted),
\* and the file of an entry that load_only leaves out is in the not-loaded
\* list.
C5_LoadOnlyFilter ==
    Returned =>
        \A k \in 1..Len(LoopTable) :
            LET e == LoopTable[k]
            IN HasPackage(e) =>
                   IF CallerSelects(e.filetype)
                   THEN LoadsOf(e.unit) # {}
                   ELSE /\ LoadsOf(e.unit) = {}
                        /\ e.filename \in Range(files_not_loaded)

\* the tags of load_only, other than DIS, that no entry of the working table has
MissingTags ==
    LET wt == WorkingTable
    IN {Upper(t) : t \in Range(lo_in.items)}
           \ ({"DIS"} \cup {wt[k].filetype : k \in 1..Len(wt)})

\* C6: once the DIS step is done, a load_only list with a tag, other than
\* DIS, that no entry of the working table has makes load raise an error
\* naming exactly those tags, before the ModflowPar steps and before any
\* other loader is called; DIS is never among the reported tags.
C6_InvalidLoadOnlyIsFatal ==
    /\ "DIS" \notin Range(not_found) /\ "dis" \notin Range(not_found)
    /\ err = "load_only entries were not found" =>
           Range(not_found) = MissingTags /\ MissingTags # {}
    /\ (/\ pc \notin {"load_dis", "load_only"}
        /\ Len(trace) >= 1 /\ trace[1].ok
        /\ lo_in.kind # "none"
        /\ MissingTags # {}) =>
           /\ Raised
           /\ err = "load_only entries were not found"
           /\ Range(not_found) = MissingTags
           /\ Len(trace) = 1
           /\ mfpar = [pval |-> {}, zone |-> {}, mult |-> {}]

\* load raised for a list that asks for DIS, for a tag the name file has and
\* for a tag it does not have, and the error names the last one only
C6_Witness ==
    /\ Raised
    /\ lo_in.kind = "list" /\ lo_in.items = <<"DIS", "WEL", "RCH">>
    /\ not_found = <<"RCH">>
    /\ \E k \in 1..Len(WorkingTable) : WorkingTable[k].filetype = "WEL"

\* C7: in a run that reaches the package loop, set_pval, set_zone and
\* set_mult have run right after the DIS load, and every other loader call
\* comes after the three of them.
C7_ParametersBeforePackages ==
    /\ pc \in {"loop", "done"} =>
           /\ Len(trace) >= 4
           /\ IsDisLoad(trace[1]) /\ trace[1].ok
           /\ {trace[2].op, trace[3].op, trace[4].op} =
                  {"set_pval", "set_zone", "set_mult"}
    /\ \A i \in 2..Len(trace) :
           IsLoad(trace[i]) =>
               \A name \in {"set_pval", "set_zone", "set_mult"} :
                   \E j \in 2..(i - 1) : trace[j].op = name

\* a package loader was called in the loop
C7_Witness ==
    /\ pc = "loop"
    /\ \E i \in 5..Len(trace) : IsOtherLoad(trace[i])

\* C8: an entry of the working table with no package and a DATA tag, once
\* the loop has passed it and while its unit is not on the pop list, has
\* exactly one external entry on the Model, with its unit, its file name and
\* the binary flag of its tag; no loader was called for it and its file is
\* not in the not-loaded list.
C8_DataEntryIsExternal ==
    pc \in {"loop", "done"} =>
    LET wt == LoopTable
    IN \A k \in 1..Len(wt) :
        LET e == wt[k]
            at == {i \in 1..Len(external_units[ml]) :
                      external_units[ml][i] = e.unit}
        IN (/\ (pc = "loop" /\ idx > k) \/ Returned
            /\ e.filetype \in {"DATA", "DATA(BINARY)"}
            /\ e.unit \notin Range(pop_key_list)) =>
               /\ Cardinality(at) = 1
               /\ Len(external_fnames[ml]) = Len(external_units[ml])
               /\ Len(external_binflag[ml]) = Len(external_units[ml])
               /\ \A i \in at :
                      /\ external_fnames[ml][i] = e.filename
                      /\ external_binflag[ml][i] = (e.filetype = "DATA(BINARY)")
               /\ LoadsOf(e.unit) = {}
               /\ e.filename \notin Range(files_not_loaded)
               /\ e.filename \notin Range(files_succesfully_loaded)

\* load returned a Model with a text and a binary external file
C8_Witness ==
    /\ Returned
    /\ Len(external_units[ml]) = 2
    /\ external_binflag[ml] = <<FALSE, TRUE>>
    /\ pop_key_list # <<>>

\* C10: when load returns, no unit of the pop list has an external entry on
\* the Model or an entry in the working table, also when a loader put it on
\* the pop list after the data entry was registered; a pop-list unit that is
\* in neither table does not end the loop over the pop list, and load never
\* raises once the package loop has started.
C10_PopListReconciled ==
    /\ Returned =>
           /\ \A j \in 1..Len(pop_key_list) :
                  /\ pop_key_list[j] \notin Range(external_units[ml])
                  /\ KeyIndex(ext_unit_dict, pop_key_list[j]) = 0
           /\ Len(external_fnames[ml]) = Len(external_units[ml])
           /\ Len(external_binflag[ml]) = Len(external_units[ml])
           /\ Range(warnings) \subseteq Range(pop_key_list)
    /\ Raised => idx = 0 /\ warnings = <<>>

\* load returned after the DIS loader put a unit of no entry on the pop list
\* and the WEL loader, called after the DATA entry was registered, put the
\* DATA unit on it
C10_Witness ==
    /\ Returned
    /\ Len(manifest) = 3
    /\ manifest[1].filetype = "DIS"
    /\ manifest[2].filetype = "DATA"
    /\ manifest[3].filetype = "WEL"
    /\ pop_key_list = <<10, manifest[2].unit>>
    /\ trace[1].pop = 10
    /\ trace[Len(trace)].pop = manifest[2].unit
    /\ warnings = <<10>>
    /\ external_units[ml] = <<>>

\* the DIS lines of the name file, and the first of them
DisLines == {i \in 1..Len(manifest) : manifest[i].filetype = "DIS"}
MinDis == CHOOSE i \in DisLines : \A j \in DisLines : i <= j
\* the name file without its first DIS line
AfterDis ==
    [k \in 1..(Len(manifest) - 1) |->
        IF k < MinDis THEN manifest[k] ELSE manifest[k + 1]]
\* lines of the name file, other than the first DIS line, that hold a file
LinesOfFile(f) ==
    {k \in 1..Len(manifest) : manifest[k].filename = f /\ k # MinDis}
\* the files of a list are files of the working table, in its order
InTableOrder(l) ==
    /\ \A a \in 1..Len(l) : LinesOfFile(l[a]) # {}
    /\ \A a \in 1..(Len(l) - 1) :
           \A i \in LinesOfFile(l[a]), j \in LinesOfFile(l[a + 1]) : i < j
LoopComplete == pc = "loop" /\ idx > Len(ext_unit_dict)

\* C16 as stated: when load returns, no entry whose loader returned is left
\* in the working table, and no entry has had its loader called twice.
C16_LoadedEntriesRemoved ==
    Returned =>
        /\ \A i \in 1..Len(trace) :
               (IsLoad(trace[i]) /\ trace[i].ok) =>
                   KeyIndex(ext_unit_dict, trace[i].key) = 0
        /\ \A k \in 1..Len(manifest) :
               Cardinality(LoadsOf(manifest[k].unit)) <= 1

\* C16 amended: the DIS entry is gone from the working table once the first
\* step has loaded it; the package loop removes no entry, so when load
\* returns every entry whose loader returned in the loop is still in the
\* table unless its unit is on the pop list; and the first step and the loop
\* together call the loader of no entry twice.
C16_LoopKeepsLoadedEntries ==
    /\ (Len(trace) >= 1 /\ trace[1].ok) =>
           KeyIndex(ext_unit_dict, trace[1].key) = 0
    /\ pc = "loop" => ext_unit_dict = LoopTable
    /\ Returned =>
           /\ \A i \in 1..Len(trace), j \in 1..Len(trace) :
                  (i < j /\ IsLoad(trace[i]) /\ IsLoad(trace[j])) =>
                      trace[i].key # trace[j].key
           /\ \A i \in 2..Len(trace) :
                  (IsLoad(trace[i]) /\ trace[i].ok
                      /\ trace[i].key \notin Range(pop_key_list)) =>
                      KeyIndex(ext_unit_dict, trace[i].key) # 0

\* load returned on a name file with two auxiliary entries: the ModflowPar
\* step claimed one, the loop loaded the other, which the step had left in
\* the table, and that one is still in the table
C16_Witness ==
    /\ Returned
    /\ mfpar.pval # {}
    /\ \E i \in 2..Len(trace) :
           /\ IsLoad(trace[i]) /\ trace[i].ok
           /\ Lower(trace[i].filetype) \in {"pval", "zone", "mult"}
           /\ KeyIndex(ext_unit_dict, trace[i].key) # 0

\* C17: with more than one DIS entry, the first step loads the first of them
\* in traversal order, the same one in every run on that name file, and
\* when it is done that entry, and no other, is gone from the table.
C17_FirstDisWins ==
    (Len(trace) = 1 /\ DisLines # {}) =>
        /\ trace[1].key = manifest[MinDis].unit
        /\ trace[1].filetype = "DIS"
        /\ pc = "load_only" => ext_unit_dict = AfterDis

\* the first step is done on a name file with two DIS lines, neither the
\* first line
C17_Witness ==
    /\ pc = "load_only"
    /\ Cardinality(DisLines) = 2
    /\ 1 \notin DisLines
    /\ Len(ext_unit_dict) = 2

\* C19: when load returns, the loaded list starts with the DIS file; after
\* it, the loaded list and the not-loaded list hold the files of
\* working-table entries in the order of the table, whichever loaders raise
\* or are skipped.
C19_ListsInTableOrder ==
    Returned =>
        /\ DisLines # {}
        /\ files_succesfully_loaded[1] = manifest[MinDis].filename
        /\ InTableOrder(Tail(files_succesfully_loaded))
        /\ InTableOrder(files_not_loaded)

\* load returned, DIS was the last line, and of the two lines before it the
\* first was skipped and the second failed to load
C19_Witness ==
    /\ Returned
    /\ Len(manifest) = 3 /\ MinDis = 3
    /\ files_succesfully_loaded = <<manifest[3].filename>>
    /\ files_not_loaded = <<manifest[1].filename, manifest[2].filename>>
    /\ LoadsOf(manifest[1].unit) = {}
    /\ \E i \in LoadsOf(manifest[2].unit) : ~trace[i].ok

\* the four outcomes of a working-table entry
IsLoaded(e) == e.filename \in Range(files_succesfully_loaded)
IsNotLoaded(e) == e.filename \in Range(files_not_loaded)
IsExternal(e) ==
    \E i \in 1..Len(external_units[ml]) :
        external_units[ml][i] = e.unit /\ external_fnames[ml][i] = e.filename
IsSuppressed(e) ==
    /\ e.filetype \in {"DATA", "DATA(BINARY)"}
    /\ e.unit \in Range(pop_key_list)
    /\ e.unit \notin Range(external_units[ml])
Outcomes(e) ==
    (IF IsLoaded(e) THEN {"loaded"} ELSE {})
    \cup (IF IsNotLoaded(e) THEN {"not loaded"} ELSE {})
    \cup (IF IsExternal(e) THEN {"external"} ELSE {})
    \cup (IF IsSuppressed(e) THEN {"suppressed"} ELSE {})

C12_ReturnsModelAndLists ==
    Returned =>
        retval = <<ml, files_succesfully_loaded, files_not_loaded>>

\* C12 amended: a load that returns hands its caller the model object alone;
\* the two file lists are local to load and are not returned.  A load that
\* has not returned, or raised, has handed over nothing.
C12_ReturnsModelOnly ==
    /\ Returned => retval = <<ml>>
    /\ ~Returned => retval = <<>>

\* load returned after loading some files and not loading others
C12_Witness ==
    /\ Returned
    /\ retval = <<ml>>
    /\ Len(files_succesfully_loaded) >= 2
    /\ files_not_loaded # <<>>

(***************************************************************************)
(* Properties of write_name_file                                           *)
(***************************************************************************)
\* the name of an external file as seen from the workspace
SeenFromWs(f) ==
    CASE model_ws = <<>> -> f
      [] model_ws = <<"ws">> /\ f = <<"a">> -> <<"..", "a">>
      [] model_ws = <<"ws">> /\ f = <<"ws", "b">> -> <<"b">>

Triple(u, f, t) == [unit |-> u, filename |-> f, filetype |-> t]
PackageTriple(p) == Triple(p.unit, p.fname, p.name)
ExternalTriple(i) ==
    Triple(external_units[ml][i], SeenFromWs(external_fnames[ml][i]),
           IF external_binflag[ml][i] THEN "DATA(BINARY)" ELSE "DATA")
\* positions of the external files whose unit is not 0
NonZero ==
    SelectSeq([i \in 1..Len(external_units[ml]) |-> i],
              LAMBDA i : external_units[ml][i] # 0)

\* what the model holds: global and listing package, owned packages, and
\* every external file
ModelTriples ==
    {PackageTriple(glo_package[i]) : i \in 1..Len(glo_package)}
    \cup {PackageTriple(lst_package)}
    \cup {PackageTriple(packagelist[i]) : i \in 1..Len(packagelist)}
    \cup {ExternalTriple(i) : i \in 1..Len(external_units[ml])}
\* the same in writing order, without the external files on unit 0
WrittenTriples ==
    [i \in 1..Len(glo_package) |-> PackageTriple(glo_package[i])]
    \o <<PackageTriple(lst_package)>>
    \o [i \in 1..Len(packagelist) |-> PackageTriple(packagelist[i])]
    \o [j \in 1..Len(NonZero) |-> ExternalTriple(NonZero[j])]
UnitsDistinct ==
    LET w == WrittenTriples
    IN \A i \in 1..Len(w), j \in 1..Len(w) : i # j => w[i].unit # w[j].unit

\* C11 as stated: the table read back from the written name file holds
\* exactly the (unit, filename, filetype) triples of the model.
C11_RoundTrip ==
    wpc = "parsed" => Range(parsed) = ModelTriples

\* C11 amended: the table read back holds, for every unit written, the
\* triple of the last line written with that unit, where the lines written
\* are those of the global and listing packages, the owned packages and the
\* external files whose unit is not 0.  When no two of these share a unit
\* and no external file is on unit 0 this is exactly the model's triples.
C11_RoundTripOfWrittenUnits ==
    wpc = "parsed" =>
        /\ LET w == WrittenTriples
           IN Range(parsed) =
                  {w[i] : i \in
                      {k \in 1..Len(w) :
                          \A j \in (k + 1)..Len(w) : w[j].unit # w[k].unit}}
        /\ (UnitsDistinct /\ Len(NonZero) = Len(external_units[ml])) =>
               Range(parsed) = ModelTriples

\* a name file was read back for a renamed model in a workspace with a
\* global package, an owned package and two external files, one on unit 0
C11_Witness ==
    /\ wpc = "parsed"
    /\ modelname = "x"
    /\ lst_package.fname = <<"x.list">>
    /\ model_ws = <<"ws">>
    /\ version = "mf2k"
    /\ Len(packagelist) = 1
    /\ Len(external_units[ml]) = 2
    /\ Len(NonZero) = 1
    /\ Cardinality(Range(parsed)) = 4
    /\ Range(parsed) # ModelTriples

\* the group of a written line, by its first token
Group(line) ==
    CASE line.ftype = "#" -> 1
      [] line.ftype = "GLOBAL" -> 2
      [] line.ftype = "LIST" -> 3
      [] line.ftype \in {"DATA", "DATA(BINARY)"} -> 5
      [] OTHER -> 4
LinesOf(g) == {i \in 1..Len(namefile) : Group(namefile[i]) = g}

\* C15: the written name file has the heading line first, then the global
\* line exactly when the version is mf2k, then one listing line, then the
\* lines of the owned packages, then the lines of the external files; no
\* line of a later group comes before a line of an earlier group.
C15_WriterLineOrder ==
    wpc # "init" =>
        /\ \A i \in 1..(Len(namefile) - 1) :
               Group(namefile[i]) <= Group(namefile[i + 1])
        /\ LinesOf(1) = {1}
        /\ Cardinality(LinesOf(2)) = (IF version = "mf2k" THEN 1 ELSE 0)
        /\ Cardinality(LinesOf(3)) = 1
        /\ Cardinality(LinesOf(4)) = Len(packagelist)
        /\ Cardinality(LinesOf(5)) = Len(NonZero)

\* a name file was written with a line in each of the five groups
C15_Witness ==
    /\ wpc = "written"
    /\ \A g \in 1..5 : LinesOf(g) # {}
    /\ heading = "MF2K"

\* the DATA and DATA(BINARY) lines of the written name file, in order
DataLines ==
    SelectSeq(namefile, LAMBDA l : l.ftype \in {"DATA", "DATA(BINARY)"})
\* the line an external file is to have
DataLineOf(i) ==
    [ftype |-> IF external_binflag[ml][i] THEN "DATA(BINARY)" ELSE "DATA",
     unit |-> external_units[ml][i],
     fname |-> SeenFromWs(external_fnames[ml][i]),
     option |-> IF external_binflag[ml][i] THEN "REPLACE" ELSE ""]

\* C18 as stated: the written name file has one DATA or DATA(BINARY) line
\* for every external file of the model, in list order.
C18_LinePerExternal ==
    wpc # "init" =>
        DataLines = [i \in 1..Len(external_units[ml]) |-> DataLineOf(i)]

\* C18 amended: the written name file has one DATA or DATA(BINARY) line for
\* every external file whose unit is not 0, and none for a file on unit 0;
\* the lines are in list order, DATA(BINARY) with REPLACE exactly when the
\* binary flag is set and DATA otherwise, with the file name written
\* relative to the workspace.
C18_LinePerNonZeroExternal ==
    wpc # "init" =>
        DataLines = [j \in 1..Len(NonZero) |-> DataLineOf(NonZero[j])]

\* a name file was written for a model in a workspace with a binary
\* external file and one on unit 0
C18_Witness ==
    /\ wpc = "written"
    /\ model_ws = <<"ws">>
    /\ Len(external_units[ml]) = 2
    /\ external_units[ml][1] = 0
    /\ external_units[ml][2] # 0 /\ external_binflag[ml][2]
    /\ Len(DataLines) = 1 /\ DataLines[1].option = "REPLACE"

(***************************************************************************)
(* Properties of the registry and of the grid shape                        *)
(***************************************************************************)
\* the registry an instance sees
Registry(m) == heap[mfnam_ref[m]]

\* C13: every instance has a registry of its own, made when the instance is
\* constructed: a step that adds, replaces or removes an entry through one
\* instance, or constructs one, leaves the registry of every other
\* constructed instance as it was, and a newly constructed instance has the
\* constructor's registry whatever was done to the others before.
C13_RegistryIsolation ==
    [][\A m \in Models :
          /\ (mfnam_ref[m] # 0 /\ regop'.m # m) =>
                 /\ mfnam_ref'[m] # 0
                 /\ heap'[mfnam_ref'[m]] = heap[mfnam_ref[m]]
          /\ (mfnam_ref[m] = 0 /\ mfnam_ref'[m] # 0) =>
                 heap'[mfnam_ref'[m]] = DefaultRegistry]_vars

\* instance 2 was just constructed after the registry of instance 1 had an
\* entry added, one replaced and one removed
C13_Witness ==
    /\ regop = [op |-> "construct", m |-> 2]
    /\ mfnam_ref[1] # 0
    /\ Registry(1)["abc"] = "other"
    /\ Registry(1)["dis"] = "other"
    /\ Registry(1)["wel"] = "absent"
    /\ Registry(2) = DefaultRegistry

\* C14: without a DIS package nlay, nrow, ncol, nper and
\* get_nrow_ncol_nlay_nper give 0; with one they give that package's values;
\* and the four properties agree with get_nrow_ncol_nlay_nper, which gives
\* rows, columns, layers, periods in that order.
C14_GridShapeDelegation ==
    /\ dis_package = <<>> =>
           /\ \A q \in Queries \ {"all"} : got[q] \in {<<>>, <<0>>}
           /\ got["all"] \in {<<>>, <<<<0, 0, 0, 0>>>>}
    /\ dis_package # <<>> =>
           /\ got["nlay"] \in {<<>>, <<dis_package[1].nlay>>}
           /\ got["nrow"] \in {<<>>, <<dis_package[1].nrow>>}
           /\ got["ncol"] \in {<<>>, <<dis_package[1].ncol>>}
           /\ got["nper"] \in {<<>>, <<dis_package[1].nper>>}
    /\ got["all"] # <<>> =>
           /\ got["nrow"] \in {<<>>, <<got["all"][1][1]>>}
           /\ got["ncol"] \in {<<>>, <<got["all"][1][2]>>}
           /\ got["nlay"] \in {<<>>, <<got["all"][1][3]>>}
           /\ got["nper"] \in {<<>>, <<got["all"][1][4]>>}

\* all five queries were answered on a model whose DIS package has more
\* layers than rows
C14_Witness ==
    /\ dis_package # <<>>
    /\ dis_package[1].nlay > dis_package[1].nrow
    /\ \A q \in Queries : got[q] # <<>>

(***************************************************************************)
(* Properties of the external unit allocator                               *)
(***************************************************************************)
\* C9: the values next_ext_unit() returns on one instance are strictly
\* increasing, none below 1000 and none returned before, whether or not
\* external files were removed in between; the i-th call on an instance
\* returns the same value whatever was done to the other instance.
C9_ExtUnitsIncrease ==
    \A m \in Models :
        \A i \in 1..Len(returned[m]) :
            /\ returned[m][i].unit >= 1000
            /\ \A j \in 1..(i - 1) : returned[m][j].unit < returned[m][i].unit
            /\ returned[m][i].unit = 1000 + i

\* instance 1 was asked twice, with an external file removed in between, and
\* instance 2 once
C9_Witness ==
    /\ Len(returned[1]) = 2
    /\ ~returned[1][1].freed
    /\ returned[1][2].freed
    /\ Len(returned[2]) = 1

====
